---- MODULE Spec2Model ----
(***************************************************************************)
(* Model of analyze_indentation.py: the analysis of captured terminal      *)
(* output for cumulative indentation growth.                               *)
(*                                                                         *)
(* A text is a sequence of characters; a character is a one-element        *)
(* string, except the escape character (ESC) and the marker glyph          *)
(* (Marker), which are named.                                              *)
(***************************************************************************)
EXTENDS Integers, Sequences, FiniteSets, TLC

VARIABLES
    source,              \* what the file / standard input holds
    pc,                  \* position of the run in __main__ / analyze_terminal_output
    output,              \* the text read (argument of analyze_terminal_output)
    clean_output,        \* output with the control sequences removed
    lines,               \* clean_output split on newlines
    test_lines,          \* the records of the lines that hold a test content
    continuation_lines,  \* test_lines without the marker lines
    expected_indent,     \* leading_spaces of the first continuation line
    cumulative_problem,  \* the flag of the indentation check
    i,                   \* index of the indentation check's loop (0-based)
    report,              \* the classification printed for each record, in order
    has_problem,         \* the value analyze_terminal_output returns
    exit_status          \* the status given to sys.exit; -1 while running

vars == <<source, pc, output, clean_output, lines, test_lines,
          continuation_lines, expected_indent, cumulative_problem, i,
          report, has_problem, exit_status>>

-----------------------------------------------------------------------------
(* Bounds of the inputs.                                                   *)

MaxRaw == 6

MaxLines == 3

MaxIndent == 2

-----------------------------------------------------------------------------
(* Characters.                                                             *)

ESC == "ESC"

Marker == "U+2726"

Digits == {"0", "1", "2", "3", "4", "5", "6", "7", "8", "9"}

Letters ==
    {"a", "b", "c", "d", "e", "f", "g", "h", "i", "j", "k", "l", "m",
     "n", "o", "p", "q", "r", "s", "t", "u", "v", "w", "x", "y", "z",
     "A", "B", "C", "D", "E", "F", "G", "H", "I", "J", "K", "L", "M",
     "N", "O", "P", "Q", "R", "S", "T", "U", "V", "W", "X", "Y", "Z"}

\* The characters str.strip() removes when called without an argument.
Whitespace == {" ", "\t", "\n", "\r", "\f", "VT"}

-----------------------------------------------------------------------------
(* ansi_escape = re.compile(r'\x1b\[[0-9;]*[a-zA-Z]') and its sub('', .)   *)

RECURSIVE ParamEnd(_, _)
\* The first position at or after k that holds no character of [0-9;].
ParamEnd(s, k) ==
    IF k <= Len(s) /\ s[k] \in Digits \cup {";"}
    THEN ParamEnd(s, k + 1)
    ELSE k

\* The position of the last character of the match of ansi_escape that
\* starts at p, or 0 when no match starts at p.
MatchEnd(s, p) ==
    IF p + 1 <= Len(s) /\ s[p] = ESC /\ s[p + 1] = "["
    THEN LET e == ParamEnd(s, p + 2)
         IN  IF e <= Len(s) /\ s[e] \in Letters THEN e ELSE 0
    ELSE 0

RECURSIVE SubFrom(_, _)
\* One left-to-right pass that drops every non-overlapping match.
SubFrom(s, p) ==
    IF p > Len(s) THEN <<>>
    ELSE LET e == MatchEnd(s, p)
         IN  IF e > 0 THEN SubFrom(s, e + 1)
             ELSE <<s[p]>> \o SubFrom(s, p + 1)

RECURSIVE SubFirstFrom(_, _)
\* As SubFrom, but only the first match is dropped (sub with count = 1).
SubFirstFrom(s, p) ==
    IF p > Len(s) THEN <<>>
    ELSE LET e == MatchEnd(s, p)
         IN  IF e > 0 THEN SubSeq(s, e + 1, Len(s))
             ELSE <<s[p]>> \o SubFirstFrom(s, p + 1)

ansi_escape_sub_first(s) == SubFirstFrom(s, 1)

ansi_escape_sub(s) == SubFrom(s, 1)

-----------------------------------------------------------------------------
(* str.split('\n'), the in operator on strings, lstrip and strip.          *)

RECURSIVE SplitFrom(_, _, _)
SplitFrom(s, p, cur) ==
    IF p > Len(s) THEN <<cur>>
    ELSE IF s[p] = "\n" THEN <<cur>> \o SplitFrom(s, p + 1, <<>>)
    ELSE SplitFrom(s, p + 1, Append(cur, s[p]))

split(s) == SplitFrom(s, 1, <<>>)

\* sub in s, for strings.
Contains(sub, s) ==
    \E k \in 1..(Len(s) - Len(sub) + 1) : SubSeq(s, k, k + Len(sub) - 1) = sub

RECURSIVE lstrip(_, _)
lstrip(s, chars) ==
    IF s # <<>> /\ Head(s) \in chars THEN lstrip(Tail(s), chars) ELSE s

RECURSIVE rstrip(_, _)
rstrip(s, chars) ==
    IF s # <<>> /\ s[Len(s)] \in chars
    THEN rstrip(SubSeq(s, 1, Len(s) - 1), chars)
    ELSE s

strip(s) == rstrip(lstrip(s, Whitespace), Whitespace)

-----------------------------------------------------------------------------
(* The content locator.                                                    *)

test_contents ==
    << <<"a", "a", "a", "a">>, <<"b", "b", "b", "b">>,
       <<"c", "c", "c", "c">>, <<"d", "d", "d", "d">> >>

\* any(content in line for content in [...])
HasTestContent(line) ==
    \E t \in 1..Len(test_contents) : Contains(test_contents[t], line)

\* Variant: lstrip() without its argument, which removes tabs as well.
CountLeadingAnyWhitespace(line) == Len(line) - Len(lstrip(line, Whitespace))

\* len(line) - len(line.lstrip(' '))
CountLeadingSpaces(line) == Len(line) - Len(lstrip(line, {" "}))

\* Variant: the index of enumerate taken as the line number.
LineNumZeroBased(idx) == idx

\* 'line_num': i+1, for the 0-based index of enumerate
LineNum(idx) == idx + 1

MatchRecord(idx, line) ==
    [line_num       |-> LineNum(idx),
     content        |-> strip(line),
     leading_spaces |-> CountLeadingSpaces(line),
     raw_line       |-> line]

RECURSIVE ScanLines(_, _)
\* The loop over enumerate(lines), from the 0-based index idx on.
ScanLines(ls, idx) ==
    IF idx >= Len(ls) THEN <<>>
    ELSE IF HasTestContent(ls[idx + 1])
         THEN <<MatchRecord(idx, ls[idx + 1])>> \o ScanLines(ls, idx + 1)
         ELSE ScanLines(ls, idx + 1)

-----------------------------------------------------------------------------
(* The indentation check.                                                  *)

\* Variant: no record is filtered out.
KeepsEveryLine(tl) == TRUE

\* Variant: startswith in place of in.
MarkerOnlyAtStart(tl) == ~(tl.content # <<>> /\ tl.content[1] = Marker)

\* not '✦' in tl['content']
IsContinuation(tl) == ~Contains(<<Marker>>, tl.content)

\* [tl for tl in test_lines if not '✦' in tl['content']]
Continuations(tls) == SelectSeq(tls, IsContinuation)

\* Variant: >= in place of >.
GrowsOrEqual(cl, idx) ==
    idx > 0 /\ cl[idx + 1].leading_spaces >= cl[idx].leading_spaces

\* i > 0 and tl['leading_spaces'] > continuation_lines[i-1]['leading_spaces']
\* (idx is the 0-based index of the record in cl)
IsCumulative(cl, idx) ==
    idx > 0 /\ cl[idx + 1].leading_spaces > cl[idx].leading_spaces

\* Variant: the predecessor taken as the baseline.
DiffersFromPrevious(cl, idx, expected) ==
    idx > 0 /\ cl[idx + 1].leading_spaces # cl[idx].leading_spaces

\* tl['leading_spaces'] != expected_indent
IsInconsistent(cl, idx, expected) == cl[idx + 1].leading_spaces # expected

\* Variant: the value returned is dropped.
ExitStatusAlwaysZero(problem) == 0

\* 1 if has_problem else 0
ExitStatus(problem) == IF problem THEN 1 ELSE 0

\* What the check prints for the record at idx: its classification, the
\* line it is about and the line whose indentation it was compared with.
ReportEntry(cl, idx, kind) ==
    [line_num |-> cl[idx + 1].line_num,
     kind     |-> kind,
     previous |-> IF idx > 0 THEN cl[idx].line_num ELSE 0]

-----------------------------------------------------------------------------
(* The inputs.                                                             *)

Spaces(n) == [k \in 1..n |-> " "]

CSI == <<ESC, "[", "0", "m">>

\* The lines the indentation check is exercised with: a token, or a token
\* and the marker, after 0..MaxIndent spaces.
JudgeBodies ==
    { <<"a", "a", "a", "a">>,
      <<"b", "b", "b", "b", " ", Marker>> }

JudgeLines == { Spaces(k) \o b : k \in 0..MaxIndent, b \in JudgeBodies }

\* The lines the locator is exercised with: tabs around the token, control
\* sequences in the leading spaces and inside the token, a coloured header
\* without a token.
ShapeBodies ==
    { <<"\t", " ", "c", "c", "c", "c", "\t">>,
      CSI \o <<" ", "d", "d">> \o CSI \o <<"d", "d", " ">> }

ShapeLines ==
    { Spaces(k) \o b : k \in 0..MaxIndent, b \in ShapeBodies }
    \cup { <<ESC, "[", "3", "2", "m", Marker, " ", "h", ESC, "[", "0", "m">> }

RECURSIVE JoinLines(_)
\* '\n'.join(ls)
JoinLines(ls) ==
    IF Len(ls) = 0 THEN <<>>
    ELSE IF Len(ls) = 1 THEN ls[1]
    ELSE ls[1] \o <<"\n">> \o JoinLines(Tail(ls))

\* Up to MaxLines lines for the check; a line of any kind alone, before or
\* after a line for the check.
LineInputs ==
    UNION { { JoinLines(f) : f \in [1..n -> JudgeLines] } : n \in 1..MaxLines }
    \cup { JoinLines(<<a, b>>) : a \in ShapeLines, b \in JudgeLines \cup ShapeLines }
    \cup { JoinLines(<<a, b>>) : a \in JudgeLines, b \in ShapeLines }
    \cup ShapeLines

RawAlphabet == {ESC, "[", "0", "m"}

RawInputs == UNION { [1..n -> RawAlphabet] : n \in 0..MaxRaw }

Indented(indents) ==
    JoinLines([k \in 1..Len(indents) |->
                   Spaces(indents[k]) \o test_contents[k] \o <<" ", "x">>])

EndToEnd ==
    JoinLines(<< <<ESC, "[", "3", "2", "m", Marker, " ",
                   "h", "e", "a", "d", "e", "r", ESC, "[", "0", "m">>,
                 Spaces(4) \o <<"a", "a", "a", "a", " ", "f", "i", "r", "s", "t">>,
                 Spaces(6) \o <<"b", "b", "b", "b", " ", "s", "e", "c", "o", "n", "d">>,
                 Spaces(8) \o <<"c", "c", "c", "c", " ", "t", "h", "i", "r", "d">> >>)

JoinedSequences == <<ESC, "[", ESC, "[", "0", "m", "0", "m">>

Scenarios ==
    { EndToEnd, JoinedSequences,
      Indented(<<4, 6, 8>>), Indented(<<4, 4, 4>>),
      Indented(<<4, 6, 4>>), Indented(<<4, 2, 4>>) }

Inputs == RawInputs \cup LineInputs \cup Scenarios

-----------------------------------------------------------------------------
(* The run.                                                                *)

Init ==
    /\ source \in Inputs
    /\ pc = "main"
    /\ output = <<>>
    /\ clean_output = <<>>
    /\ lines = <<>>
    /\ test_lines = <<>>
    /\ continuation_lines = <<>>
    /\ expected_indent = 0
    /\ cumulative_problem = FALSE
    /\ i = 0
    /\ report = <<>>
    /\ has_problem = FALSE
    /\ exit_status = -1

\* with open(sys.argv[1], 'r') as f: output = f.read()
ReadFile ==
    /\ pc = "main"
    /\ output' = source
    /\ pc' = "sanitize"
    /\ UNCHANGED <<source, clean_output, lines, test_lines, continuation_lines,
                   expected_indent, cumulative_problem, i, report,
                   has_problem, exit_status>>

\* open() raises: the exception is not caught, the interpreter exits with 1
ReadFail ==
    /\ pc = "main"
    /\ pc' = "aborted"
    /\ exit_status' = 1
    /\ UNCHANGED <<source, output, clean_output, lines, test_lines,
                   continuation_lines, expected_indent, cumulative_problem, i,
                   report, has_problem>>

\* output = sys.stdin.read()
ReadStdin ==
    /\ pc = "main"
    /\ output' = source
    /\ pc' = "sanitize"
    /\ UNCHANGED <<source, clean_output, lines, test_lines, continuation_lines,
                   expected_indent, cumulative_problem, i, report,
                   has_problem, exit_status>>

\* clean_output = ansi_escape.sub('', output)
Sanitize ==
    /\ pc = "sanitize"
    /\ clean_output' = ansi_escape_sub(output)
    /\ pc' = "split"
    /\ UNCHANGED <<source, output, lines, test_lines, continuation_lines,
                   expected_indent, cumulative_problem, i, report,
                   has_problem, exit_status>>

\* Variant: the raw text is split.
SplitRawLines ==
    /\ pc = "split"
    /\ lines' = split(output)
    /\ pc' = "locate"
    /\ UNCHANGED <<source, output, clean_output, test_lines, continuation_lines,
                   expected_indent, cumulative_problem, i, report,
                   has_problem, exit_status>>

\* lines = clean_output.split('\n')
SplitLines ==
    /\ pc = "split"
    /\ lines' = split(clean_output)
    /\ pc' = "locate"
    /\ UNCHANGED <<source, output, clean_output, test_lines, continuation_lines,
                   expected_indent, cumulative_problem, i, report,
                   has_problem, exit_status>>

\* test_lines = []; for i, line in enumerate(lines): ... test_lines.append(...)
LocateContent ==
    /\ pc = "locate"
    /\ test_lines' = ScanLines(lines, 0)
    /\ pc' = "found"
    /\ UNCHANGED <<source, output, clean_output, lines, continuation_lines,
                   expected_indent, cumulative_problem, i, report,
                   has_problem, exit_status>>

\* if not test_lines: return False
NoTestContent ==
    /\ pc = "found"
    /\ test_lines = <<>>
    /\ has_problem' = FALSE
    /\ pc' = "exit"
    /\ UNCHANGED <<source, output, clean_output, lines, test_lines,
                   continuation_lines, expected_indent, cumulative_problem, i,
                   report, exit_status>>

\* continuation_lines = [tl for tl in test_lines if not '✦' in tl['content']]
FilterContinuation ==
    /\ pc = "found"
    /\ test_lines # <<>>
    /\ continuation_lines' = Continuations(test_lines)
    /\ pc' = "check"
    /\ UNCHANGED <<source, output, clean_output, lines, test_lines,
                   expected_indent, cumulative_problem, i, report,
                   has_problem, exit_status>>

\* else: print("Not enough continuation lines for analysis"); return False
NotEnoughLines ==
    /\ pc = "check"
    /\ ~(Len(continuation_lines) >= 2)
    /\ has_problem' = FALSE
    /\ pc' = "exit"
    /\ UNCHANGED <<source, output, clean_output, lines, test_lines,
                   continuation_lines, expected_indent, cumulative_problem, i,
                   report, exit_status>>

\* if len(continuation_lines) >= 2: expected_indent = ...; cumulative_problem = False
BeginJudge ==
    /\ pc = "check"
    /\ Len(continuation_lines) >= 2
    /\ expected_indent' = continuation_lines[1].leading_spaces
    /\ cumulative_problem' = FALSE
    /\ i' = 0
    /\ pc' = "judge"
    /\ UNCHANGED <<source, output, clean_output, lines, test_lines,
                   continuation_lines, report, has_problem, exit_status>>

\* if i > 0 and tl[...] > continuation_lines[i-1][...]: cumulative_problem = True
JudgeCumulative ==
    /\ pc = "judge"
    /\ i < Len(continuation_lines)
    /\ IsCumulative(continuation_lines, i)
    /\ cumulative_problem' = TRUE
    /\ report' = Append(report, ReportEntry(continuation_lines, i, "cumulative"))
    /\ i' = i + 1
    /\ UNCHANGED <<source, pc, output, clean_output, lines, test_lines,
                   continuation_lines, expected_indent, has_problem, exit_status>>

\* elif tl['leading_spaces'] != expected_indent: print("INCONSISTENT INDENT")
JudgeInconsistent ==
    /\ pc = "judge"
    /\ i < Len(continuation_lines)
    /\ ~IsCumulative(continuation_lines, i)
    /\ IsInconsistent(continuation_lines, i, expected_indent)
    /\ report' = Append(report, ReportEntry(continuation_lines, i, "inconsistent"))
    /\ i' = i + 1
    /\ UNCHANGED <<source, pc, output, clean_output, lines, test_lines,
                   continuation_lines, expected_indent, cumulative_problem,
                   has_problem, exit_status>>

\* Variant: the else branch clears the flag.
JudgeCorrectResets ==
    /\ pc = "judge"
    /\ i < Len(continuation_lines)
    /\ ~IsCumulative(continuation_lines, i)
    /\ ~IsInconsistent(continuation_lines, i, expected_indent)
    /\ cumulative_problem' = FALSE
    /\ report' = Append(report, ReportEntry(continuation_lines, i, "correct"))
    /\ i' = i + 1
    /\ UNCHANGED <<source, pc, output, clean_output, lines, test_lines,
                   continuation_lines, expected_indent, has_problem, exit_status>>

\* else: print("Line ... has correct ... spaces")
JudgeCorrect ==
    /\ pc = "judge"
    /\ i < Len(continuation_lines)
    /\ ~IsCumulative(continuation_lines, i)
    /\ ~IsInconsistent(continuation_lines, i, expected_indent)
    /\ report' = Append(report, ReportEntry(continuation_lines, i, "correct"))
    /\ i' = i + 1
    /\ UNCHANGED <<source, pc, output, clean_output, lines, test_lines,
                   continuation_lines, expected_indent, cumulative_problem,
                   has_problem, exit_status>>

\* the loop is over: return cumulative_problem
ReturnVerdict ==
    /\ pc = "judge"
    /\ i = Len(continuation_lines)
    /\ has_problem' = cumulative_problem
    /\ pc' = "exit"
    /\ UNCHANGED <<source, output, clean_output, lines, test_lines,
                   continuation_lines, expected_indent, cumulative_problem, i,
                   report, exit_status>>

\* sys.exit(1 if has_problem else 0)
SysExit ==
    /\ pc = "exit"
    /\ exit_status' = ExitStatus(has_problem)
    /\ pc' = "done"
    /\ UNCHANGED <<source, output, clean_output, lines, test_lines,
                   continuation_lines, expected_indent, cumulative_problem, i,
                   report, has_problem>>

Next ==
    \/ ReadFile
    \/ ReadFail
    \/ ReadStdin
    \/ Sanitize
    \/ SplitLines
    \/ LocateContent
    \/ NoTestContent
    \/ FilterContinuation
    \/ NotEnoughLines
    \/ BeginJudge
    \/ JudgeCumulative
    \/ JudgeInconsistent
    \/ JudgeCorrect
    \/ ReturnVerdict
    \/ SysExit

Spec == Init /\ [][Next]_vars

\* A step of the indentation check's loop, or its return.
JudgeStep ==
    \/ JudgeCumulative
    \/ JudgeInconsistent
    \/ JudgeCorrect
    \/ ReturnVerdict

\* The loop is a for statement over a list, run by one thread: once the
\* check is entered, the statement that can run next does run.
FairSpec == Spec /\ WF_vars(JudgeStep)

-----------------------------------------------------------------------------
(* The value analyze_terminal_output returns for the lines ls, as a        *)
(* function of them.                                                       *)

AnalyzeLines(ls) ==
    LET tl == ScanLines(ls, 0)
        cl == Continuations(tl)
    IN  /\ tl # <<>>
        /\ Len(cl) >= 2
        /\ \E idx \in 0..(Len(cl) - 1) : IsCumulative(cl, idx)

-----------------------------------------------------------------------------
(* The notions the properties are stated with, defined on the text and     *)
(* not by the program's steps.                                             *)

\* The number of consecutive spaces a line starts with.
SpaceRun(l) ==
    CHOOSE k \in 0..Len(l) :
        /\ \A j \in 1..k : l[j] = " "
        /\ (k = Len(l) \/ l[k + 1] # " ")

\* The line holds one of the recognition tokens.
TokenLine(l) ==
    \E k \in 1..Len(l) :
        /\ k + 3 <= Len(l)
        /\ l[k] \in {"a", "b", "c", "d"}
        /\ \A j \in 1..3 : l[k + j] = l[k]

\* The line holds the marker glyph.
MarkerLine(l) == \E k \in 1..Len(l) : l[k] = Marker

\* The numbers (1-based) of the lines of ls that satisfy Test, in order.
NumbersOf(ls, Test(_)) ==
    SelectSeq([n \in 1..Len(ls) |-> n], LAMBDA n : Test(ls[n]))

TokenNumbers(ls) == NumbersOf(ls, TokenLine)

JudgedLine(l) == TokenLine(l) /\ ~MarkerLine(l)

\* The ContinuationSet: the numbers of the token lines without the marker.
JudgedNumbers(ls) == NumbersOf(ls, JudgedLine)

\* The leading-space sequence of the ContinuationSet.
JudgedIndents(ls) ==
    LET ns == JudgedNumbers(ls)
    IN  [k \in 1..Len(ns) |-> SpaceRun(ls[ns[k]])]

HasGrowth(seq) == \E k \in 2..Len(seq) : seq[k] > seq[k - 1]

Returned == pc \in {"exit", "done"}

Located == pc \in {"found", "check", "judge", "exit", "done"}

-----------------------------------------------------------------------------
\* C1: when the ContinuationSet has at least two records, the value returned
\* is TRUE if and only if some record has more leading spaces than the
\* record right before it.
C1_VerdictIffGrowth ==
    (Returned /\ Len(JudgedNumbers(lines)) >= 2)
        => (has_problem <=> HasGrowth(JudgedIndents(lines)))

\* A decrease followed by an increase, as in [4, 2, 4], is reported.
C1_Witness ==
    /\ pc = "done"
    /\ JudgedIndents(lines) = <<4, 2, 4>>
    /\ has_problem

-----------------------------------------------------------------------------
\* The lines of ls without the token lines that hold the marker.
WithoutMarkerLines(ls) ==
    SelectSeq(ls, LAMBDA l : ~(TokenLine(l) /\ MarkerLine(l)))

\* C2: a token line that holds the marker glyph takes no part in the check:
\* it is never classified, never the predecessor a record is compared with,
\* never the baseline, and the value returned is the value returned for the
\* same text with those lines deleted.
C2_MarkerExcluded ==
    /\ \A k \in 1..Len(continuation_lines) :
           ~MarkerLine(continuation_lines[k].raw_line)
    /\ \A k \in 1..Len(report) :
           /\ ~MarkerLine(lines[report[k].line_num])
           /\ report[k].previous # 0 => ~MarkerLine(lines[report[k].previous])
    /\ pc \in {"judge", "exit", "done"} /\ Len(JudgedNumbers(lines)) >= 2
           => expected_indent = JudgedIndents(lines)[1]
    /\ Returned => has_problem = AnalyzeLines(WithoutMarkerLines(lines))

\* A marker line indented deeper than the continuation line before it, in a
\* run that judged two continuation lines and found no growth.
C2_Witness ==
    /\ pc = "done"
    /\ ~has_problem
    /\ Len(continuation_lines) = 2
    /\ \E k \in 2..Len(test_lines) :
           /\ MarkerLine(test_lines[k].raw_line)
           /\ test_lines[k].leading_spaces > test_lines[k - 1].leading_spaces

-----------------------------------------------------------------------------
\* C3: with zero or one record in the ContinuationSet the value returned is
\* FALSE and nothing is classified, whatever the leading spaces of the
\* matching lines, marker lines included.
C3_InsufficientData ==
    (Returned /\ Len(JudgedNumbers(lines)) <= 1)
        => (~has_problem /\ report = <<>>)

\* One continuation line followed by two marker lines of growing indentation.
C3_Witness ==
    /\ pc = "done"
    /\ Len(continuation_lines) = 1
    /\ Len(test_lines) = 3
    /\ test_lines[2].leading_spaces > test_lines[1].leading_spaces
    /\ test_lines[3].leading_spaces > test_lines[2].leading_spaces
    /\ ~has_problem

-----------------------------------------------------------------------------
\* C4: a run that completes exits with 1 exactly when a cumulative-growth
\* defect was found and with 0 otherwise; a text without any recognition
\* token returns FALSE, exits with 0, and the check is never entered for it.
C4_ExitStatus ==
    /\ pc = "done" =>
           /\ exit_status \in {0, 1}
           /\ exit_status = 1 <=>
                  \E k \in 1..Len(report) : report[k].kind = "cumulative"
           /\ exit_status = 1 <=>
                  (Len(JudgedNumbers(lines)) >= 2 /\ HasGrowth(JudgedIndents(lines)))
    /\ pc \notin {"done", "aborted"} => exit_status = -1
    /\ (Located /\ TokenNumbers(lines) = <<>>) =>
           /\ pc \notin {"check", "judge"}
           /\ report = <<>>
           /\ ~has_problem
           /\ pc = "done" => exit_status = 0

\* A text of several lines, none with a token, has exited with 0.
C4_Witness ==
    /\ pc = "done"
    /\ Len(lines) >= 2
    /\ TokenNumbers(lines) = <<>>
    /\ exit_status = 0

-----------------------------------------------------------------------------
\* Position p of s starts a control sequence: ESC, '[', characters of
\* [0-9;], a letter.
StartsSequence(s, p) ==
    \E e \in (p + 2)..Len(s) :
        /\ s[p] = ESC
        /\ s[p + 1] = "["
        /\ \A k \in (p + 2)..(e - 1) : s[k] \in Digits \cup {";"}
        /\ s[e] \in Letters

EveryEscStartsSequence(s) ==
    \A p \in 1..Len(s) : s[p] = ESC => StartsSequence(s, p)

Sanitized == pc \notin {"main", "sanitize", "aborted"}

\* C5, as stated: sanitizing the sanitized text gives the sanitized text
\* again, for every raw text.
C5_Idempotent ==
    Sanitized => ansi_escape_sub(clean_output) = clean_output

\* C5, amended: when every ESC of the raw text starts a control sequence,
\* the sanitized text holds no ESC and sanitizing it gives it again.
C5_IdempotentOnWellFormed ==
    (Sanitized /\ EveryEscStartsSequence(output)) =>
        /\ \A p \in 1..Len(clean_output) : clean_output[p] # ESC
        /\ ansi_escape_sub(clean_output) = clean_output

\* A raw text with two control sequences, both removed.
C5_Witness ==
    /\ pc = "split"
    /\ EveryEscStartsSequence(output)
    /\ Cardinality({p \in 1..Len(output) : output[p] = ESC}) >= 2
    /\ Len(clean_output) < Len(output)
    /\ clean_output # <<>>

-----------------------------------------------------------------------------
Max(S) == CHOOSE x \in S : \A y \in S : y <= x

\* C6: the line numbers of test_lines are the numbers (from 1) of the token
\* lines of the sanitized text, in increasing order; continuation_lines is
\* the subsequence of them without the marker lines; the line a record is
\* compared with is the nearest earlier token line without the marker.
C6_OrderPreserved ==
    /\ Located =>
           /\ [k \in 1..Len(test_lines) |-> test_lines[k].line_num]
                  = TokenNumbers(lines)
           /\ \A k \in 1..Len(test_lines) :
                  /\ test_lines[k].line_num \in 1..Len(lines)
                  /\ test_lines[k].raw_line = lines[test_lines[k].line_num]
           /\ \A k \in 2..Len(test_lines) :
                  test_lines[k].line_num > test_lines[k - 1].line_num
    /\ pc \in {"check", "judge", "exit", "done"} /\ test_lines # <<>> =>
           [k \in 1..Len(continuation_lines) |-> continuation_lines[k].line_num]
               = JudgedNumbers(lines)
    /\ \A k \in 1..Len(report) :
           /\ report[k].line_num = JudgedNumbers(lines)[k]
           /\ report[k].previous =
                  Max({0} \cup {n \in 1..(report[k].line_num - 1) :
                                    JudgedLine(lines[n])})

\* A record compared with a line two lines above it, over a marker line.
C6_Witness ==
    /\ pc = "done"
    /\ Len(test_lines) = 3
    /\ Len(continuation_lines) = 2
    /\ report[2].line_num = 3
    /\ report[2].previous = 1

-----------------------------------------------------------------------------
NonIncreasing(seq) == \A k \in 2..Len(seq) : seq[k] <= seq[k - 1]

Kinds == {"cumulative", "inconsistent", "correct"}

\* C7: record k is classified inconsistent exactly when it has no more
\* leading spaces than the record before it and not as many as the first
\* record; every record gets exactly one classification; the value returned
\* is TRUE only if some record was classified cumulative, so a sequence
\* that never increases returns FALSE.
C7_Classification ==
    LET ind == JudgedIndents(lines)
    IN  /\ Len(report) <= Len(ind)
        /\ \A k \in 1..Len(report) :
               /\ report[k].kind \in Kinds
               /\ report[k].kind = "cumulative" <=>
                      (k > 1 /\ ind[k] > ind[k - 1])
               /\ report[k].kind = "inconsistent" <=>
                      (k > 1 /\ ~(ind[k] > ind[k - 1]) /\ ind[k] # ind[1])
               /\ report[k].kind = "correct" <=>
                      (~(k > 1 /\ ind[k] > ind[k - 1]) /\ ind[k] = ind[1])
        /\ (Returned /\ Len(ind) >= 2) => Len(report) = Len(ind)
        /\ (Returned /\ has_problem) =>
               \E k \in 1..Len(report) : report[k].kind = "cumulative"
        /\ (Returned /\ NonIncreasing(ind)) => ~has_problem

\* [2, 1, 1]: the third record equals its predecessor and differs from the
\* first; it is inconsistent and the value returned is FALSE.
C7_Witness ==
    /\ pc = "done"
    /\ JudgedIndents(lines) = <<2, 1, 1>>
    /\ report[3].kind = "inconsistent"
    /\ ~has_problem

-----------------------------------------------------------------------------
\* The first and the last position of l that hold no whitespace (0 if none).
FirstInk(l) ==
    IF \A k \in 1..Len(l) : l[k] \in Whitespace THEN 0
    ELSE CHOOSE k \in 1..Len(l) :
             l[k] \notin Whitespace /\ \A j \in 1..(k - 1) : l[j] \in Whitespace

LastInk(l) ==
    IF \A k \in 1..Len(l) : l[k] \in Whitespace THEN 0
    ELSE CHOOSE k \in 1..Len(l) :
             l[k] \notin Whitespace /\ \A j \in (k + 1)..Len(l) : l[j] \in Whitespace

\* C8: leading_spaces is the number of consecutive spaces the sanitized line
\* starts with; a tab is not counted and ends the count, so a line that
\* starts with a tab has 0; content is the line without its leading and
\* trailing whitespace, tabs included.
C8_LeadingSpaces ==
    Located =>
        \A k \in 1..Len(test_lines) :
            LET r == test_lines[k]
                l == lines[r.line_num]
            IN  /\ r.leading_spaces = SpaceRun(l)
                /\ (l[1] = "\t" => r.leading_spaces = 0)
                /\ r.content = SubSeq(l, FirstInk(l), LastInk(l))

\* A token line that starts with a tab followed by a space, and one that
\* has a tab after its leading spaces.
C8_Witness ==
    /\ pc = "done"
    /\ \E k \in 1..Len(test_lines) :
           /\ test_lines[k].raw_line[1] = "\t"
           /\ test_lines[k].raw_line[2] = " "
           /\ test_lines[k].leading_spaces = 0
           /\ test_lines[k].content = <<"c", "c", "c", "c">>
    /\ \E k \in 1..Len(test_lines) :
           /\ test_lines[k].leading_spaces = 2
           /\ test_lines[k].raw_line[3] = "\t"

-----------------------------------------------------------------------------
\* The control sequences inserted to vary a text.
InsertedSequences == { <<ESC, "[", "1", ";", "3", "1", "m">> }

\* The text s, s with one control sequence inserted at any place, and s with
\* any one of its control sequences deleted.
Variants(s) ==
    {s}
    \cup { SubSeq(s, 1, p) \o c \o SubSeq(s, p + 1, Len(s)) :
               p \in 0..Len(s), c \in InsertedSequences }
    \cup { SubSeq(s, 1, p - 1) \o SubSeq(s, MatchEnd(s, p) + 1, Len(s)) :
               p \in {q \in 1..Len(s) : MatchEnd(s, q) > 0} }

\* C9: the records, the leading spaces judged and the value returned depend
\* on the sanitized text only: a text that differs from the one read by a
\* control sequence, and has the same sanitized text, gives the same
\* records and the same value. The scenario with the coloured marker header
\* gives [4, 6, 8], TRUE and exit status 1.
C9_SanitizedTextOnly ==
    /\ pc = "done" =>
           LET judged  == [k \in 1..Len(continuation_lines) |->
                               continuation_lines[k].leading_spaces]
               \* the sanitized texts of the variants of the text read
               cleaned == {ansi_escape_sub(y) : y \in Variants(output)}
           IN  /\ clean_output \in cleaned
               /\ \A t \in cleaned :
                      t = clean_output =>
                          /\ test_lines = ScanLines(split(t), 0)
                          /\ judged = JudgedIndents(split(t))
                          /\ has_problem = AnalyzeLines(split(t))
    /\ (pc = "done" /\ output = EndToEnd) =>
           /\ [k \in 1..Len(continuation_lines) |->
                   continuation_lines[k].leading_spaces] = <<4, 6, 8>>
           /\ has_problem
           /\ exit_status = 1

\* The scenario with the coloured marker header, completed.
C9_Witness ==
    /\ pc = "done"
    /\ output = EndToEnd
    /\ Len(test_lines) = 3
    /\ exit_status = 1

-----------------------------------------------------------------------------
\* C10: the check, once entered, reaches its return; each step of its loop
\* classifies the record at the index and moves the index on by one, from
\* the first record (compared with no predecessor) to the last; and the
\* flag, once TRUE, stays TRUE.
C10_JudgeTerminates ==
    /\ (pc = "judge") ~> (pc = "exit")
    /\ [][ /\ (pc = "check" /\ pc' = "judge") => (i' = 0 /\ report' = <<>>)
           /\ (pc = "judge" /\ pc' = "judge") =>
                  /\ i < Len(continuation_lines)
                  /\ i' = i + 1
                  /\ Len(report') = i'
                  /\ report'[i'].line_num = continuation_lines[i'].line_num
                  /\ (i = 0 => report'[i'].previous = 0
                                   /\ report'[i'].kind # "cumulative")
           /\ (pc = "judge" /\ pc' = "exit") =>
                  /\ i = Len(continuation_lines)
                  /\ has_problem' = cumulative_problem
           /\ cumulative_problem => cumulative_problem'
         ]_vars

\* The flag was set at the second record and kept at the third, which was
\* classified correct.
C10_Witness ==
    /\ pc = "exit"
    /\ Len(report) = 3
    /\ report[2].kind = "cumulative"
    /\ report[3].kind = "correct"
    /\ cumulative_problem
    /\ has_problem

====
